---- MODULE Spec2Model ----
(***************************************************************************)
(* Model of HLS_Parse/src/media_playlist.rs: MediaPlaylist::parse_ext_m3u. *)
(*                                                                         *)
(* A string is a sequence of one-character strings.  The function is run   *)
(* as a state machine: CheckInput (lines 56-62), ResolveVersion (64-84),   *)
(* ResolveDuration (86-105), one CollectSegment step per iteration of the  *)
(* loop of lines 111-139, and Finish (141-146).                            *)
(***************************************************************************)
EXTENDS Integers, Sequences, FiniteSets, TLC

VARIABLES
    pieces,            \* the line contents the input text was built from
    file,              \* _file: the text handed to parse_ext_m3u
    lines,             \* lines: Vec<&str>
    pc,                \* position in parse_ext_m3u
    file_version,      \* file_version: u64
    file_duration,     \* file_duration: Duration
    file_segments,     \* file_segments: Vec<MediaSegment>
    new_segment,       \* new_segment: bool
    segment_duration,  \* segment_duration: Duration
    idx,               \* index of the next line the loop of line 111 reads
    result             \* what the call returned

vars == <<pieces, file, lines, pc, file_version, file_duration, file_segments,
          new_segment, segment_duration, idx, result>>

-----------------------------------------------------------------------------
(* Bounds of the explored inputs *)

MaxHeaderBody == 3
MaxTagLines == 3
MaxSegLines == 4
MaxInfoLines == 2

-----------------------------------------------------------------------------
(* RFC8216 tag constants, media_playlist.rs lines 8-16 *)

HEADER_TAG == <<"#","E","X","T","M","3","U">>
VERSION_TAG == <<"#","E","X","T","-","X","-","V","E","R","S","I","O","N">>
VERSION_PRE == <<"#","E","X","T","-","X","-","V","E","R","S","I","O","N",":">>
ENDLIST_TAG == <<"#","E","X","T","-","X","-","E","N","D","L","I","S","T">>
DURATION_TAG == <<"#","E","X","T","-","X","-","T","A","R","G","E","T","D","U","R","A","T","I","O","N">>
DURATION_PRE == <<"#","E","X","T","-","X","-","T","A","R","G","E","T","D","U","R","A","T","I","O","N",":">>
SEGMENT_TAG == <<"#","E","X","T","I","N","F">>
SEGMENT_PRE == <<"#","E","X","T","I","N","F",":">>
BYTERANGE_TAG == <<"#","E","X","T","-","X","-","B","Y","T","E","R","A","N","G","E">>

(* The error values, named by their kind; each is the message the code builds *)
EmptyInput == "Input contains no data"
MissingHeader == "Input doesn't start with EXTM3U tag"
DuplicateTagVersion == "Playlist contains more than 1 version tag"
MalformedTagVersion == "Version tag found, but could not parse"
DuplicateTagDuration == "Playlist contains more than 1 duration tag"
MalformedTagDuration == "Duration tag found, but could not parse"
MissingRequiredTagDuration == "Duration tag not found"
MalformedTagSegmentInfo == "Segment tag found, but could not parse duration"

-----------------------------------------------------------------------------
(* Library primitives the function calls *)

LF == "\n"
CR == "\r"

None == [some |-> FALSE, val |-> <<>>]
Some(v) == [some |-> TRUE, val |-> v]

\* str::starts_with
starts_with(s, p) == Len(s) >= Len(p) /\ SubSeq(s, 1, Len(p)) = p

\* str::strip_prefix
strip_prefix(s, p) ==
    IF starts_with(s, p) THEN Some(SubSeq(s, Len(p) + 1, Len(s))) ELSE None

\* The position of the first c in s at or after from, or Len(s) + 1
FirstAt(s, c, from) ==
    IF \E i \in from..Len(s) : s[i] = c
    THEN CHOOSE i \in from..Len(s) : s[i] = c /\ \A j \in from..(i - 1) : s[j] # c
    ELSE Len(s) + 1

\* str::split_inclusive('\n'): the chunks of t from position from on, each
\* ending with its line feed, the last one possibly without
RECURSIVE SplitInclusive(_, _)
SplitInclusive(t, from) ==
    IF from > Len(t) THEN <<>>
    ELSE LET e == IF FirstAt(t, LF, from) > Len(t) THEN Len(t) ELSE FirstAt(t, LF, from)
         IN <<SubSeq(t, from, e)>> \o SplitInclusive(t, e + 1)

\* What str::lines makes of one chunk: the line feed is removed, and then a
\* carriage return before it
StripLineEnding(chunk) ==
    IF Len(chunk) > 0 /\ chunk[Len(chunk)] = LF
    THEN LET l == SubSeq(chunk, 1, Len(chunk) - 1)
         IN IF Len(l) > 0 /\ l[Len(l)] = CR THEN SubSeq(l, 1, Len(l) - 1) ELSE l
    ELSE chunk

\* _file.lines().collect()
Lines(t) ==
    LET chunks == SplitInclusive(t, 1)
    IN [i \in 1..Len(chunks) |-> StripLineEnding(chunks[i])]

DigitChars == <<"0","1","2","3","4","5","6","7","8","9">>
IsDigit(c) == \E i \in 1..10 : DigitChars[i] = c
DigitVal(c) == (CHOOSE i \in 1..10 : DigitChars[i] = c) - 1
AllDigits(s) == \A i \in 1..Len(s) : IsDigit(s[i])

RECURSIVE DecimalValue(_)
DecimalValue(s) ==
    IF s = <<>> THEN 0
    ELSE 10 * DecimalValue(SubSeq(s, 1, Len(s) - 1)) + DigitVal(s[Len(s)])

RECURSIVE StripZeros(_)
StripZeros(s) ==
    IF Len(s) > 1 /\ s[1] = "0" THEN StripZeros(Tail(s)) ELSE s

\* u64::MAX = 18446744073709551615, digit by digit
U64MaxDigits == <<1,8,4,4,6,7,4,4,0,7,3,7,0,9,5,5,1,6,1,5>>

\* A digit string whose value does not fit 64 bits
OverflowsU64(s) ==
    LET d == StripZeros(s)
    IN \/ Len(d) > Len(U64MaxDigits)
       \/ /\ Len(d) = Len(U64MaxDigits)
          /\ \E i \in 1..Len(d) :
                /\ DigitVal(d[i]) > U64MaxDigits[i]
                /\ \A j \in 1..(i - 1) : DigitVal(d[j]) = U64MaxDigits[j]

\* str::parse::<u64>: an optional "+", then one or more digits, the value
\* within 64 bits.  (The values of the explored inputs are small enough for
\* DecimalValue to be computed exactly.)
ParseU64(s) ==
    LET digits == IF Len(s) > 1 /\ s[1] = "+" THEN Tail(s) ELSE s
    IN IF digits = <<>> \/ ~AllDigits(digits) \/ OverflowsU64(digits)
       THEN None
       ELSE Some(DecimalValue(digits))

\* An f32 value: class "finite", "nan" or "inf", its sign, and for a finite
\* one its integer part and the digits of its fraction.  The decimal payloads
\* of the explored inputs are exactly representable in binary32, so no
\* rounding arises.
F32(class, neg, int, frac) == [class |-> class, neg |-> neg, int |-> int, frac |-> frac]

\* str::parse::<f32>: an optional sign, then "nan", "inf", "infinity", or
\* digits with an optional point; at least one digit.  (Exponents are outside
\* the alphabet of the explored inputs.)
ParseF32(s) ==
    LET signed == Len(s) > 0 /\ s[1] \in {"+", "-"}
        neg == Len(s) > 0 /\ s[1] = "-"
        body == IF signed THEN Tail(s) ELSE s
        dot == FirstAt(body, ".", 1)
        ip == SubSeq(body, 1, dot - 1)
        fp == SubSeq(body, dot + 1, Len(body))
    IN IF body = <<"n","a","n">> THEN Some(F32("nan", neg, 0, <<>>))
       ELSE IF body \in {<<"i","n","f">>, <<"i","n","f","i","n","i","t","y">>}
            THEN Some(F32("inf", neg, 0, <<>>))
       ELSE IF AllDigits(ip) /\ AllDigits(fp) /\ Len(ip) + Len(fp) > 0
            THEN Some(F32("finite", neg, DecimalValue(ip), fp))
       ELSE None

IsZeroF32(f) == f.int = 0 /\ \A i \in 1..Len(f.frac) : f.frac[i] = "0"

\* Duration::new(secs, nanos)
Duration(secs, nanos) == [secs |-> secs, nanos |-> nanos]

RECURSIVE Pow10(_)
Pow10(n) == IF n = 0 THEN 1 ELSE 10 * Pow10(n - 1)

\* Duration::from_secs_f32 panics on a negative, NaN or infinite value
FromSecsPanics(f) == f.class # "finite" \/ (f.neg /\ ~IsZeroF32(f))

\* Duration::from_secs_f32 on a value it accepts
from_secs_f32(f) ==
    LET digits == SubSeq(f.frac, 1, IF Len(f.frac) < 9 THEN Len(f.frac) ELSE 9)
    IN Duration(f.int, DecimalValue(digits) * Pow10(9 - Len(digits)))

\* info_string.split(",") ... info[0]: the text before the first comma
FirstField(s) == SubSeq(s, 1, FirstAt(s, ",", 1) - 1)

\* A count that takes equal lines for one line
CountDistinctStarting(ls, tag) ==
    Cardinality({ls[i] : i \in {j \in 1..Len(ls) : starts_with(ls[j], tag)}})

\* lines.iter().filter(|x| x.starts_with(tag)).count()
CountStarting(ls, tag) == Cardinality({i \in 1..Len(ls) : starts_with(ls[i], tag)})

\* lines.iter().find(|x| x.starts_with(tag)).copied()
FindStarting(ls, tag) ==
    IF \E i \in 1..Len(ls) : starts_with(ls[i], tag)
    THEN Some(ls[FirstAt([i \in 1..Len(ls) |-> starts_with(ls[i], tag)], TRUE, 1)])
    ELSE None

-----------------------------------------------------------------------------
(* What the call returns *)

Running == [kind |-> "none"]
Ok(playlist) == [kind |-> "ok", playlist |-> playlist]
Err(msg) == [kind |-> "err", msg |-> msg]
Panicked == [kind |-> "panic"]

NoError == ""
Pass(err, val) == [err |-> err, val |-> val]

\* MediaSegment { duration, url }
MediaSegment(duration, url) == [duration |-> duration, url |-> url]

\* MediaPlaylist { ended, segments, target_duration, version }
MediaPlaylist(ended, segments, target_duration, version) ==
    [ended |-> ended, segments |-> segments,
     target_duration |-> target_duration, version |-> version]

-----------------------------------------------------------------------------
(* The passes of parse_ext_m3u as functions of the lines *)

\* A header check that accepts any first line starting with the header tag
CheckInputOfPrefix(ls) ==
    IF Len(ls) = 0 THEN EmptyInput
    ELSE IF ~starts_with(ls[1], HEADER_TAG) THEN MissingHeader
    ELSE NoError

\* Lines 59 and 62: the error of the non-empty and header checks, if any
CheckInputOf(ls) ==
    IF Len(ls) = 0 THEN EmptyInput
    ELSE IF ls[1] # HEADER_TAG THEN MissingHeader
    ELSE NoError

\* A version pass without the else of line 80
ResolveVersionOfNoElse(ls, initial) ==
    IF CountStarting(ls, VERSION_TAG) > 1 THEN Pass(DuplicateTagVersion, initial)
    ELSE LET version_line == FindStarting(ls, VERSION_TAG)
         IN IF version_line.some
            THEN LET version_string == strip_prefix(version_line.val, VERSION_PRE)
                 IN IF version_string.some
                    THEN LET parsed_version == ParseU64(version_string.val)
                         IN IF parsed_version.some
                            THEN Pass(NoError, parsed_version.val)
                            ELSE Pass(MalformedTagVersion, initial)
                    ELSE Pass(NoError, initial)
            ELSE Pass(NoError, initial)

\* Lines 65-84: the error of the version pass, or the new file_version
ResolveVersionOf(ls, initial) ==
    IF CountStarting(ls, VERSION_TAG) > 1 THEN Pass(DuplicateTagVersion, initial)
    ELSE LET version_line == FindStarting(ls, VERSION_TAG)
         IN IF version_line.some
            THEN LET version_string == strip_prefix(version_line.val, VERSION_PRE)
                 IN IF version_string.some
                    THEN LET parsed_version == ParseU64(version_string.val)
                         IN IF parsed_version.some
                            THEN Pass(NoError, parsed_version.val)
                            ELSE Pass(MalformedTagVersion, initial)
                    ELSE Pass(MalformedTagVersion, initial)
            ELSE Pass(NoError, initial)

\* Lines 87-105: the error of the target-duration pass, or the new
\* file_duration.  A tag line that does not strip DURATION_PRE falls through
\* the if of line 95, which has no else.
ResolveDurationOf(ls, initial) ==
    IF CountStarting(ls, DURATION_TAG) > 1 THEN Pass(DuplicateTagDuration, initial)
    ELSE LET duration_line == FindStarting(ls, DURATION_TAG)
         IN IF duration_line.some
            THEN LET duration_string == strip_prefix(duration_line.val, DURATION_PRE)
                 IN IF duration_string.some
                    THEN LET parsed_duration == ParseU64(duration_string.val)
                         IN IF parsed_duration.some
                            THEN Pass(NoError, Duration(parsed_duration.val, 0))
                            ELSE Pass(MalformedTagDuration, initial)
                    ELSE Pass(NoError, initial)
            ELSE Pass(MissingRequiredTagDuration, initial)

\* Branches that ignore the end-of-list tag only when the line equals it
IgnoredTagExact(line) ==
    starts_with(line, BYTERANGE_TAG) \/ line = ENDLIST_TAG

\* Lines 126-133: the two branches of the loop that do nothing
IgnoredTag(line) ==
    starts_with(line, BYTERANGE_TAG) \/ starts_with(line, ENDLIST_TAG)

Loop(outcome, ns, sd, segs) ==
    [outcome |-> outcome, new_segment |-> ns, segment_duration |-> sd,
     file_segments |-> segs]

\* Lines 112-125: the loop body on a line that starts with SEGMENT_TAG
SegmentInfo(line, ns, sd, segs) ==
    LET info_string == strip_prefix(line, SEGMENT_PRE)
    IN IF info_string.some
       THEN LET parsed_duration == ParseF32(FirstField(info_string.val))
            IN IF parsed_duration.some
               THEN IF FromSecsPanics(parsed_duration.val)
                    THEN Loop("panic", TRUE, sd, segs)
                    ELSE Loop("next", TRUE, from_secs_f32(parsed_duration.val), segs)
               ELSE Loop(MalformedTagSegmentInfo, TRUE, sd, segs)
       ELSE Loop("next", TRUE, sd, segs)

\* Lines 134-138: the loop body on a line no earlier branch took
CollectUrl(line, ns, sd, segs) ==
    IF ns THEN Loop("next", FALSE, sd, Append(segs, MediaSegment(sd, line)))
    ELSE Loop("next", ns, sd, segs)

\* Lines 111-139: one iteration of the loop
SegmentStep(line, ns, sd, segs) ==
    IF starts_with(line, SEGMENT_TAG) THEN SegmentInfo(line, ns, sd, segs)
    ELSE IF IgnoredTag(line) THEN Loop("next", ns, sd, segs)
    ELSE CollectUrl(line, ns, sd, segs)

\* An end-of-list test by prefix
EndedOfPrefix(ls) == \E i \in 1..Len(ls) : starts_with(ls[i], ENDLIST_TAG)

\* Line 142: lines.iter().any(|x| x == &ENDLIST_TAG)
EndedOf(ls) == \E i \in 1..Len(ls) : ls[i] = ENDLIST_TAG

-----------------------------------------------------------------------------
(* The explored inputs *)

Chars(tag, payload) == tag \o payload

VERSION_4 == Chars(VERSION_PRE, <<"4">>)
VERSION_PLUS7 == Chars(VERSION_PRE, <<"+","7">>)
VERSION_NOCOLON == VERSION_TAG
VERSION_BAD == Chars(VERSION_PRE, <<"4","a">>)
VERSION_OVERFLOW ==
    Chars(VERSION_PRE, <<"1","8","4","4","6","7","4","4","0","7","3","7","0","9","5","5","1","6","1","6">>)
DURATION_20 == Chars(DURATION_PRE, <<"2","0">>)
DURATION_0 == Chars(DURATION_PRE, <<"0">>)
DURATION_NOCOLON == DURATION_TAG
DURATION_BAD == Chars(DURATION_PRE, <<"2",".","5">>)
EXTINF_TITLED == Chars(SEGMENT_PRE, <<"1",".","5",",","t">>)
EXTINF_2 == Chars(SEGMENT_PRE, <<"2",",">>)
EXTINF_NOCOLON == SEGMENT_TAG
EXTINF_BAD == Chars(SEGMENT_PRE, <<"a","b","c",",">>)
EXTINF_EMPTY == SEGMENT_PRE
EXTINF_NEGATIVE == Chars(SEGMENT_PRE, <<"-","1",",">>)
EXTINF_NEGZERO == Chars(SEGMENT_PRE, <<"-","0",",">>)
EXTINF_NAN == Chars(SEGMENT_PRE, <<"n","a","n",",">>)
EXTINF_INF == Chars(SEGMENT_PRE, <<"i","n","f",",">>)
BYTERANGE_LINE == Chars(BYTERANGE_TAG, <<":","1","@","0">>)
ENDLIST_MORE == Chars(ENDLIST_TAG, <<":","1">>)
OTHER_TAG == <<"#","E","X","T","-","X","-","D","I","S","C","O","N","T","I","N","U","I","T","Y">>
URL_A == <<"a",".","t","s">>
EMPTY_LINE == <<>>

HeadPool ==
    {HEADER_TAG, EMPTY_LINE, <<" ">> \o HEADER_TAG, HEADER_TAG \o <<" ">>,
     <<"#","e","x","t","m","3","u">>, VERSION_4}
HeaderBodyPool == {DURATION_20, EXTINF_2, URL_A}
TagPool ==
    {VERSION_4, VERSION_PLUS7, VERSION_NOCOLON, VERSION_BAD, VERSION_OVERFLOW,
     DURATION_20, DURATION_0, DURATION_NOCOLON, DURATION_BAD,
     EXTINF_2, EXTINF_BAD, URL_A}
SegPool ==
    {EXTINF_TITLED, EXTINF_NOCOLON, BYTERANGE_LINE, ENDLIST_TAG, ENDLIST_MORE,
     OTHER_TAG, URL_A, EMPTY_LINE}
InfoPool ==
    {EXTINF_2, EXTINF_BAD, EXTINF_EMPTY, EXTINF_NEGATIVE, EXTINF_NEGZERO,
     EXTINF_NAN, EXTINF_INF, URL_A}

BoundedSeq(S, n) == UNION {[1..k -> S] : k \in 0..n}

\* The text of the lines ps, each ended by eol, the last one only if final
RECURSIVE JoinLines(_, _, _)
JoinLines(ps, eol, final) ==
    IF ps = <<>> THEN <<>>
    ELSE IF Len(ps) = 1 THEN Head(ps) \o (IF final THEN eol ELSE <<>>)
    ELSE Head(ps) \o eol \o JoinLines(Tail(ps), eol, final)

Input(ps, eol, final) == [pieces |-> ps, text |-> JoinLines(ps, eol, final)]

\* Texts with any first line, either line ending, with and without a final
\* line ending (a text that ends in an empty line has one), and the empty text
HeaderInputs ==
    {Input(<<>>, <<LF>>, FALSE)} \cup
    {Input(<<h>> \o b, eol, final) :
        h \in HeadPool, b \in BoundedSeq(HeaderBodyPool, MaxHeaderBody),
        eol \in {<<LF>>, <<CR, LF>>}, final \in {TRUE}} \cup
    {Input(<<h>> \o b, eol, FALSE) :
        h \in HeadPool \ {EMPTY_LINE}, b \in BoundedSeq(HeaderBodyPool, MaxHeaderBody),
        eol \in {<<LF>>, <<CR, LF>>}}

TagInputs ==
    {Input(<<HEADER_TAG>> \o b, <<LF>>, TRUE) : b \in BoundedSeq(TagPool, MaxTagLines)}

SegInputs ==
    {Input(<<HEADER_TAG, DURATION_20>> \o b, <<LF>>, TRUE) :
        b \in BoundedSeq(SegPool, MaxSegLines)}

InfoInputs ==
    {Input(<<HEADER_TAG, DURATION_20>> \o b, <<LF>>, TRUE) :
        b \in BoundedSeq(InfoPool, MaxInfoLines)}

-----------------------------------------------------------------------------
(* The state machine *)

InitOn(inputs) ==
    /\ \E in \in inputs : pieces = in.pieces /\ file = in.text
    /\ lines = <<>>
    /\ pc = "start"
    /\ file_version = 0
    /\ file_duration = Duration(0, 0)
    /\ file_segments = <<>>
    /\ new_segment = FALSE
    /\ segment_duration = Duration(0, 0)
    /\ idx = 1
    /\ result = Running

Return(r) ==
    /\ pc' = "done"
    /\ result' = r

\* Lines 56-62
CheckInput ==
    /\ pc = "start"
    /\ lines' = Lines(file)
    /\ IF CheckInputOf(lines') # NoError
       THEN Return(Err(CheckInputOf(lines')))
       ELSE pc' = "version" /\ UNCHANGED result
    /\ UNCHANGED <<pieces, file, file_version, file_duration, file_segments,
                   new_segment, segment_duration, idx>>

\* Lines 64-84
ResolveVersion ==
    /\ pc = "version"
    /\ LET r == ResolveVersionOf(lines, file_version)
       IN IF r.err # NoError
          THEN Return(Err(r.err)) /\ UNCHANGED file_version
          ELSE pc' = "duration" /\ file_version' = r.val /\ UNCHANGED result
    /\ UNCHANGED <<pieces, file, lines, file_duration, file_segments,
                   new_segment, segment_duration, idx>>

\* Lines 86-105
ResolveDuration ==
    /\ pc = "duration"
    /\ LET r == ResolveDurationOf(lines, file_duration)
       IN IF r.err # NoError
          THEN Return(Err(r.err)) /\ UNCHANGED file_duration
          ELSE pc' = "segments" /\ file_duration' = r.val /\ UNCHANGED result
    /\ UNCHANGED <<pieces, file, lines, file_version, file_segments,
                   new_segment, segment_duration, idx>>

\* Lines 111-139, one iteration
CollectSegment ==
    /\ pc = "segments"
    /\ idx <= Len(lines)
    /\ LET r == SegmentStep(lines[idx], new_segment, segment_duration, file_segments)
       IN /\ new_segment' = r.new_segment
          /\ segment_duration' = r.segment_duration
          /\ file_segments' = r.file_segments
          /\ IF r.outcome = "next" THEN pc' = "segments" /\ UNCHANGED result
             ELSE IF r.outcome = "panic" THEN Return(Panicked)
             ELSE Return(Err(r.outcome))
    /\ idx' = idx + 1
    /\ UNCHANGED <<pieces, file, lines, file_version, file_duration>>

\* Lines 141-146
Finish ==
    /\ pc = "segments"
    /\ idx > Len(lines)
    /\ Return(Ok(MediaPlaylist(EndedOf(lines), file_segments, file_duration, file_version)))
    /\ UNCHANGED <<pieces, file, lines, file_version, file_duration, file_segments,
                   new_segment, segment_duration, idx>>

Next ==
    \/ CheckInput
    \/ ResolveVersion
    \/ ResolveDuration
    \/ CollectSegment
    \/ Finish

SpecHeader == InitOn(HeaderInputs) /\ [][Next]_vars
SpecTags == InitOn(TagInputs) /\ [][Next]_vars
SpecSegments == InitOn(SegInputs) /\ [][Next]_vars
SpecInfo == InitOn(InfoInputs) /\ [][Next]_vars

-----------------------------------------------------------------------------
(* The specification's reading of an input, over the lines it was built from *)

Done == pc = "done"
Succeeded == result.kind = "ok"
HeaderOk == Len(pieces) > 0 /\ pieces[1] = HEADER_TAG

LinesStarting(tag) == {i \in 1..Len(pieces) : starts_with(pieces[i], tag)}

\* The payload of a tag line as an unsigned integer, if it has one
UintPayload(line, pre) ==
    IF strip_prefix(line, pre).some THEN ParseU64(strip_prefix(line, pre).val) ELSE None

\* At most one version line, and that one well formed
VersionPassSucceeds ==
    \/ LinesStarting(VERSION_TAG) = {}
    \/ \E i \in 1..Len(pieces) :
          LinesStarting(VERSION_TAG) = {i} /\ UintPayload(pieces[i], VERSION_PRE).some

\* Exactly one target-duration line, and that one well formed
DurationPassSucceeds ==
    \E i \in 1..Len(pieces) :
        LinesStarting(DURATION_TAG) = {i} /\ UintPayload(pieces[i], DURATION_PRE).some

\* The payload of a segment-info line as a duration, if it has one
DurationPayload(line) ==
    LET s == strip_prefix(line, SEGMENT_PRE)
        f == ParseF32(FirstField(s.val))
    IN IF s.some /\ f.some /\ ~FromSecsPanics(f.val) THEN Some(from_secs_f32(f.val))
       ELSE None

\* A segment-info line that does not announce a duration
MalformedInfo(line) == starts_with(line, SEGMENT_TAG) /\ ~DurationPayload(line).some

\* A tag: a line beginning with #EXT
IsTag(line) == starts_with(line, <<"#","E","X","T">>)

-----------------------------------------------------------------------------
(* C7 *)

\* C7: the empty text fails with EmptyInput, a text whose first line is not
\* exactly #EXTM3U fails with MissingHeader whatever follows, and a playlist
\* is returned only for a text whose first line is exactly #EXTM3U.
C7_HeaderGate ==
    Done =>
        /\ file = <<>> => result = Err(EmptyInput)
        /\ file # <<>> /\ pieces[1] # HEADER_TAG => result = Err(MissingHeader)
        /\ Succeeded => file # <<>> /\ pieces[1] = HEADER_TAG

\* A text whose first line is the header tag followed by a space, with a
\* valid rest, was refused with MissingHeader
C7_Witness ==
    /\ Done
    /\ result = Err(MissingHeader)
    /\ Len(pieces) = 4
    /\ pieces[1] = HEADER_TAG \o <<" ">>
    /\ pieces[2] = DURATION_20 /\ pieces[3] = EXTINF_2 /\ pieces[4] = URL_A

-----------------------------------------------------------------------------
(* C4 *)

\* C4: past the header check, without a version line a returned playlist has
\* version 0; with exactly one, the parse succeeds only if the line strips
\* #EXT-X-VERSION: and the rest parses as a u64 v, and then version = v;
\* otherwise it fails with MalformedTag(Version).
C4_VersionResolution ==
    Done /\ HeaderOk =>
        /\ LinesStarting(VERSION_TAG) = {} =>
              /\ Succeeded => result.playlist.version = 0
              /\ result # Err(MalformedTagVersion)
        /\ \A i \in 1..Len(pieces) : LinesStarting(VERSION_TAG) = {i} =>
              IF UintPayload(pieces[i], VERSION_PRE).some
              THEN /\ Succeeded =>
                         result.playlist.version = UintPayload(pieces[i], VERSION_PRE).val
                   /\ Succeeded /\ pieces[i] = VERSION_4 => result.playlist.version = 4
                   /\ Succeeded /\ pieces[i] = VERSION_PLUS7 => result.playlist.version = 7
                   /\ result # Err(MalformedTagVersion)
              ELSE /\ result = Err(MalformedTagVersion)
                   /\ pieces[i] \in {VERSION_NOCOLON, VERSION_BAD, VERSION_OVERFLOW}

\* A playlist with the one version line #EXT-X-VERSION:+7 was returned
C4_Witness ==
    /\ Done /\ Succeeded
    /\ \E i \in 1..Len(pieces) :
          LinesStarting(VERSION_TAG) = {i} /\ pieces[i] = VERSION_PLUS7
    /\ result.playlist.version = 7

-----------------------------------------------------------------------------
(* C5 *)

\* C5: past the header check, two or more version lines fail the parse with
\* DuplicateTag(Version), and, the version pass succeeding, two or more
\* target-duration lines fail it with DuplicateTag(Duration), whatever their
\* payloads and positions are.
C5_SingletonEnforcement ==
    Done /\ HeaderOk =>
        /\ Cardinality(LinesStarting(VERSION_TAG)) >= 2 =>
              result = Err(DuplicateTagVersion)
        /\ VersionPassSucceeds /\ Cardinality(LinesStarting(DURATION_TAG)) >= 2 =>
              result = Err(DuplicateTagDuration)

\* Two equal target-duration lines were refused
C5_Witness ==
    /\ Done
    /\ result = Err(DuplicateTagDuration)
    /\ \E i, j \in 1..Len(pieces) :
          i < j /\ pieces[i] = DURATION_20 /\ pieces[j] = DURATION_20

-----------------------------------------------------------------------------
(* C6 *)

\* C6: a returned playlist has ended true exactly when some line of the
\* input equals #EXT-X-ENDLIST, and the loop has read every line, those
\* after the end-of-list line included.
C6_EndedIffEndlistLine ==
    Done /\ Succeeded =>
        /\ result.playlist.ended <=> \E i \in 1..Len(pieces) : pieces[i] = ENDLIST_TAG
        /\ idx = Len(pieces) + 1

\* A playlist was returned whose end-of-list line came while a segment was
\* pending and before the segment's URL line
C6_Witness ==
    /\ Done /\ Succeeded
    /\ result.playlist.ended
    /\ pieces = <<HEADER_TAG, DURATION_20, EXTINF_TITLED, ENDLIST_TAG, URL_A>>
    /\ Len(result.playlist.segments) = 1

-----------------------------------------------------------------------------
(* C9 *)

\* An iteration of the loop reads a line that does not start with #EXTINF
ReadsOtherLine ==
    pc = "segments" /\ idx <= Len(lines) /\ ~starts_with(lines[idx], SEGMENT_TAG)

LoopStateUnchanged ==
    /\ new_segment' = new_segment
    /\ segment_duration' = segment_duration
    /\ file_segments' = file_segments

CollectedAsUrl ==
    /\ file_segments' = Append(file_segments, MediaSegment(segment_duration, lines[idx]))
    /\ new_segment' = FALSE
    /\ segment_duration' = segment_duration

\* C9 as stated: a line leaves the pending flag, the pending duration and
\* the segments as they are exactly when it starts with the byte-range tag,
\* or equals #EXT-X-ENDLIST, or comes while nothing is pending; every other
\* line not starting with #EXTINF is collected as the URL and clears pending.
C9_AsStated ==
    [][ReadsOtherLine =>
          LET quiet == \/ starts_with(lines[idx], BYTERANGE_TAG)
                       \/ lines[idx] = ENDLIST_TAG
                       \/ ~new_segment
          IN /\ quiet <=> LoopStateUnchanged
             /\ ~quiet => CollectedAsUrl]_vars

\* C9, amended: a line that does not start with #EXTINF leaves the pending
\* flag, the pending duration and the segments as they are exactly when it
\* starts with the byte-range tag, or starts with #EXT-X-ENDLIST, or comes
\* while nothing is pending; every other such line is collected as the URL
\* of the pending segment and clears pending.
C9_LineClassification ==
    [][ReadsOtherLine =>
          LET quiet == \/ starts_with(lines[idx], BYTERANGE_TAG)
                       \/ starts_with(lines[idx], ENDLIST_TAG)
                       \/ ~new_segment
          IN /\ quiet <=> LoopStateUnchanged
             /\ ~quiet => CollectedAsUrl]_vars

\* With a segment pending the loop has read two byte-range lines and a line
\* that starts with #EXT-X-ENDLIST and goes on, and the segment is still
\* pending with its duration
C9_Witness ==
    /\ pc = "segments"
    /\ idx = 7
    /\ SubSeq(lines, 3, 6) = <<EXTINF_TITLED, BYTERANGE_LINE, BYTERANGE_LINE, ENDLIST_MORE>>
    /\ new_segment
    /\ segment_duration = Duration(1, 500000000)
    /\ file_segments = <<>>

-----------------------------------------------------------------------------
(* C1 *)

\* The input is valid: the header, exactly one target-duration line and at
\* most one version line, both well formed, and only well-formed
\* #EXTINF:<float>, lines
ValidInput ==
    /\ HeaderOk
    /\ VersionPassSucceeds
    /\ DurationPassSucceeds
    /\ \A i \in 1..Len(pieces) : starts_with(pieces[i], SEGMENT_TAG) =>
          /\ DurationPayload(pieces[i]).some
          /\ \E k \in 1..Len(pieces[i]) : pieces[i][k] = ","

\* The first line after line i that is neither a byte-range line nor the
\* end-of-list line is a line that is no tag
GenuineUrlFollows(i) ==
    \E j \in (i + 1)..Len(pieces) :
        /\ ~IsTag(pieces[j])
        /\ \A k \in (i + 1)..(j - 1) :
              starts_with(pieces[k], BYTERANGE_TAG) \/ pieces[k] = ENDLIST_TAG

\* C1: a valid input parses, and the number of segments is the number of
\* #EXTINF lines followed, over byte-range and end-of-list lines only, by a
\* line that is no tag.
C1_SegmentCount ==
    Done /\ ValidInput =>
        /\ Succeeded
        /\ Len(result.playlist.segments) =
              Cardinality({i \in LinesStarting(SEGMENT_TAG) : GenuineUrlFollows(i)})

-----------------------------------------------------------------------------
(* C2 *)

\* The segments the specification expects of the lines from i on: a line the
\* loop collects becomes a segment with the duration announced by the nearest
\* line before it that starts with #EXTINF, which is line last
RECURSIVE ExpectedSegments(_, _, _)
ExpectedSegments(i, last, pending) ==
    IF i > Len(pieces) THEN <<>>
    ELSE IF starts_with(pieces[i], SEGMENT_TAG) THEN ExpectedSegments(i + 1, i, TRUE)
    ELSE IF IgnoredTag(pieces[i]) \/ ~pending THEN ExpectedSegments(i + 1, last, pending)
    ELSE <<[announced |-> DurationPayload(pieces[last]), url |-> pieces[i]]>>
         \o ExpectedSegments(i + 1, last, FALSE)

\* C2: a returned playlist lists the collected lines in input order, each
\* with its line as the url and with the duration parsed from the payload
\* of the nearest #EXTINF line before it.
C2_SegmentsInOrder ==
    Done /\ Succeeded =>
        LET expected == ExpectedSegments(1, 0, FALSE)
            segments == result.playlist.segments
        IN /\ Len(segments) = Len(expected)
           /\ \A k \in 1..Len(segments) :
                 /\ segments[k].url = expected[k].url
                 /\ expected[k].announced.some
                 /\ segments[k].duration = expected[k].announced.val

-----------------------------------------------------------------------------
(* C3 *)

\* C3: past the header and version checks, without a target-duration line
\* the parse fails with MissingRequiredTag(Duration); with exactly one, it
\* succeeds only if the text after #EXT-X-TARGETDURATION: parses as a u64 n,
\* and then target_duration is n seconds; otherwise it fails with
\* MalformedTag(Duration).  A returned target_duration is 0 only for the
\* payload 0.
C3_DurationResolution ==
    Done /\ HeaderOk /\ VersionPassSucceeds =>
        /\ LinesStarting(DURATION_TAG) = {} => result = Err(MissingRequiredTagDuration)
        /\ \A i \in 1..Len(pieces) : LinesStarting(DURATION_TAG) = {i} =>
              IF UintPayload(pieces[i], DURATION_PRE).some
              THEN Succeeded =>
                      result.playlist.target_duration =
                          Duration(UintPayload(pieces[i], DURATION_PRE).val, 0)
              ELSE result = Err(MalformedTagDuration)
        /\ Succeeded /\ result.playlist.target_duration = Duration(0, 0) =>
              \E i \in 1..Len(pieces) : pieces[i] = DURATION_0

-----------------------------------------------------------------------------
(* C8 *)

\* The error the specification's pass order gives an input, if any
SpecifiedError ==
    IF pieces = <<>> THEN EmptyInput
    ELSE IF pieces[1] # HEADER_TAG THEN MissingHeader
    ELSE IF Cardinality(LinesStarting(VERSION_TAG)) > 1 THEN DuplicateTagVersion
    ELSE IF ~VersionPassSucceeds THEN MalformedTagVersion
    ELSE IF Cardinality(LinesStarting(DURATION_TAG)) > 1 THEN DuplicateTagDuration
    ELSE IF LinesStarting(DURATION_TAG) = {} THEN MissingRequiredTagDuration
    ELSE IF ~DurationPassSucceeds THEN MalformedTagDuration
    ELSE IF \E i \in 1..Len(pieces) : MalformedInfo(pieces[i]) THEN MalformedTagSegmentInfo
    ELSE NoError

\* C8: the error returned is that of the earliest failing pass;
\* MalformedTag(SegmentInfo) is returned only when the header, version and
\* target-duration passes succeed, and it is the first malformed #EXTINF
\* line that ends the parse.
C8_ErrorsInPassOrder ==
    Done =>
        /\ SpecifiedError # NoError => result = Err(SpecifiedError)
        /\ result = Err(MalformedTagSegmentInfo) =>
              /\ HeaderOk /\ VersionPassSucceeds /\ DurationPassSucceeds
              /\ MalformedInfo(pieces[idx - 1])
              /\ \A i \in 1..(idx - 2) : ~MalformedInfo(pieces[i])

-----------------------------------------------------------------------------
(* C10 *)

\* C10: the call ends by returning a playlist or an error, never by
\* panicking; an #EXTINF line whose payload is a float that is no duration,
\* or is empty, ends it with MalformedTag(SegmentInfo).
C10_NeverPanics ==
    Done =>
        /\ result.kind \in {"ok", "err"}
        /\ HeaderOk /\ VersionPassSucceeds /\ DurationPassSucceeds
           /\ (\E i \in 1..Len(pieces) :
                 pieces[i] \in {EXTINF_NEGATIVE, EXTINF_NAN, EXTINF_INF, EXTINF_EMPTY})
           => result = Err(MalformedTagSegmentInfo)

====
